---- MODULE Spec2Model ----
(***************************************************************************)
(* Model of the operators of simple-rule-engine: In (string_in.py) and the *)
(* operators exercised by test_operator.py (Between, Gte, BooleanOperator).*)
(* An operator instance is constructed once (Init) and then evaluated any  *)
(* number of times; each evaluate call is one action.                      *)
(***************************************************************************)
EXTENDS Integers, Sequences, FiniteSets

(* ---------------------------- bounds ----------------------------------- *)
MaxBase == 2      \* most base values handed to In(*base_value)
MaxLen == 2       \* most elements of a list or tuple candidate
MaxNum == 3       \* numbers 0..MaxNum for Between and Gte
MaxCalls == 2     \* evaluate calls made on one instance

(* ------------------------- Python values ------------------------------- *)
\* A Python value: its type tag and its payload.
PyVal(kind, s, n, items) == [kind |-> kind, s |-> s, n |-> n, items |-> items]
PyNone == PyVal("none", "", 0, <<>>)
PyStr(a) == PyVal("str", a, 0, <<>>)
PyInt(i) == PyVal("int", "", i, <<>>)
PyBool(b) == PyVal("bool", "", IF b THEN 1 ELSE 0, <<>>)
PyTuple(items) == PyVal("tuple", "", 0, items)
PyList(items) == PyVal("list", "", 0, items)

SeqsUpTo(S, k) == UNION {[1..m -> S] : m \in 0..k}

Atoms == {"dog", "cat", "fish"}
StrVals == {PyStr(a) : a \in Atoms}
\* values that can be put in a set: strings and a tuple of strings
HashableElems == StrVals \cup {PyTuple(<<PyStr("dog")>>)}
\* a list is unhashable
Elems == HashableElems \cup {PyList(<<PyStr("dog")>>)}

\* In(*base_value): the arguments a caller constructs In with
InArgs == SeqsUpTo(HashableElems, MaxBase)
\* candidates handed to In.evaluate: strings, tuples and lists
InCandidates ==
    StrVals
    \cup {PyTuple(t) : t \in SeqsUpTo(StrVals, MaxLen)}
    \cup {PyList(l) : l \in SeqsUpTo(Elems, MaxLen)}

Words == {"a", "b"}
OrderedVals == {PyInt(i) : i \in 0..MaxNum} \cup {PyStr(w) : w \in Words}
BoolVals == {PyBool(TRUE), PyBool(FALSE)}
BoolCandidates == BoolVals \cup {PyInt(0), PyInt(1), PyStr("")}

(* ----------------------- results of a call ----------------------------- *)
NoCall == [status |-> "none", value |-> FALSE]
Returned(b) == [status |-> "returned", value |-> b]
TypeError == [status |-> "raised", value |-> FALSE]

(* ------------------------------ state ---------------------------------- *)
VARIABLES
    cls,          \* class of the instance
    ctor,         \* the arguments the constructor was called with
    base_value,   \* self.base_value (In: the tuple of arguments; Gte, BooleanOperator: the base)
    floor,        \* self.floor (Between)
    ceiling,      \* self.ceiling (Between)
    cand,         \* the candidate passed to the latest evaluate call
    candAfter,    \* the caller's candidate object after that call
    ret,          \* outcome of the latest evaluate call
    calls         \* evaluate calls made so far

vars == <<cls, ctor, base_value, floor, ceiling, cand, candAfter, ret, calls>>

(* ------------------------ In (string_in.py) ---------------------------- *)
\* hash(v): a list, or a tuple holding one, cannot be hashed
Hashable(v) ==
    /\ v.kind # "list"
    /\ \A i \in 1..Len(v.items) : v.items[i].kind # "list"

\* set(items): the distinct elements; TypeError on an unhashable element
RECURSIVE SetElems(_)
SetElems(items) ==
    IF items = <<>> THEN {} ELSE {Head(items)} \cup SetElems(Tail(items))

SetRaises(items) == \E i \in 1..Len(items) : ~Hashable(items[i])

\* a scan that stops after the first element
TupleContainsFirstOnly(items, x) == items # <<>> /\ Head(items) = x

\* x in tuple: scan the tuple for an element equal to x
RECURSIVE TupleContains(_, _)
TupleContains(items, x) ==
    IF items = <<>> THEN FALSE
    ELSE IF Head(items) = x THEN TRUE
    ELSE TupleContains(Tail(items), x)

\* In.__init__(*base_value): the arguments are kept as one tuple
In_init(args) == PyTuple(args)

\* list mode as a containment check: every candidate element is a base value
In_evaluate_subset(self_base_value, value_to_evaluate) ==
    IF value_to_evaluate.kind = "list"
    THEN IF SetRaises(self_base_value.items) \/ SetRaises(value_to_evaluate.items)
         THEN TypeError
         ELSE Returned(SetElems(value_to_evaluate.items) \subseteq SetElems(self_base_value.items))
    ELSE Returned(TupleContains(self_base_value.items, value_to_evaluate))

\* list mode chosen for a tuple candidate too
In_evaluate_any_sequence(self_base_value, value_to_evaluate) ==
    IF value_to_evaluate.kind \in {"list", "tuple"}
    THEN IF SetRaises(self_base_value.items) \/ SetRaises(value_to_evaluate.items)
         THEN TypeError
         ELSE Returned(SetElems(self_base_value.items) = SetElems(value_to_evaluate.items))
    ELSE Returned(TupleContains(self_base_value.items, value_to_evaluate))

\* the type error of set(...) caught and turned into False
In_evaluate_catches(self_base_value, value_to_evaluate) ==
    IF value_to_evaluate.kind = "list"
    THEN IF SetRaises(self_base_value.items) \/ SetRaises(value_to_evaluate.items)
         THEN Returned(FALSE)
         ELSE Returned(SetElems(self_base_value.items) = SetElems(value_to_evaluate.items))
    ELSE Returned(TupleContains(self_base_value.items, value_to_evaluate))

\* list mode comparing the sequences element by element, without set(...)
In_evaluate_list_eq(self_base_value, value_to_evaluate) ==
    IF value_to_evaluate.kind = "list"
    THEN IF SetRaises(self_base_value.items) \/ SetRaises(value_to_evaluate.items)
         THEN TypeError
         ELSE Returned(self_base_value.items = value_to_evaluate.items)
    ELSE Returned(TupleContains(self_base_value.items, value_to_evaluate))

\* what In.evaluate returns or raises
In_evaluate(self_base_value, value_to_evaluate) ==
    IF value_to_evaluate.kind = "list"
    THEN IF SetRaises(self_base_value.items) \/ SetRaises(value_to_evaluate.items)
         THEN TypeError
         ELSE Returned(SetElems(self_base_value.items) = SetElems(value_to_evaluate.items))
    ELSE Returned(TupleContains(self_base_value.items, value_to_evaluate))

\* an evaluate that consumes the first base value
In_base_after_consumes(self_base_value, value_to_evaluate) ==
    IF self_base_value.items = <<>> THEN self_base_value
    ELSE PyTuple(Tail(self_base_value.items))

\* an evaluate that drops repeated trailing elements from the candidate list
In_cand_after_dedup(self_base_value, value_to_evaluate) ==
    IF value_to_evaluate.kind = "list" /\ Len(value_to_evaluate.items) > 1
       /\ value_to_evaluate.items[Len(value_to_evaluate.items)] = value_to_evaluate.items[1]
    THEN PyList(SubSeq(value_to_evaluate.items, 1, Len(value_to_evaluate.items) - 1))
    ELSE value_to_evaluate

\* In.evaluate assigns to no attribute of self and calls no mutating method
\* of the candidate: set(...) and "in" only read their operands
In_base_after(self_base_value, value_to_evaluate) == self_base_value
In_cand_after(self_base_value, value_to_evaluate) == value_to_evaluate

(* --------------- Between, Gte, BooleanOperator ------------------------- *)
\* position of a string in the host's string order
Rank(w) == IF w = "a" THEN 0 ELSE 1

\* a <= b is defined for two numbers or two strings only
Orderable(a, b) == a.kind = b.kind /\ a.kind \in {"int", "str"}

\* a <= b, where defined
Le(a, b) == IF a.kind = "int" THEN a.n <= b.n ELSE Rank(a.s) <= Rank(b.s)

\* a range that excludes its ceiling
Between_evaluate_exclusive(self_floor, self_ceiling, value_to_evaluate) ==
    IF ~Orderable(self_floor, value_to_evaluate) \/ ~Orderable(value_to_evaluate, self_ceiling)
    THEN TypeError
    ELSE Returned(Le(self_floor, value_to_evaluate) /\ Le(value_to_evaluate, self_ceiling)
                  /\ value_to_evaluate # self_ceiling)

\* Between(floor, ceiling).evaluate(candidate): floor <= candidate <= ceiling
Between_evaluate(self_floor, self_ceiling, value_to_evaluate) ==
    IF ~Orderable(self_floor, value_to_evaluate) \/ ~Orderable(value_to_evaluate, self_ceiling)
    THEN TypeError
    ELSE Returned(Le(self_floor, value_to_evaluate) /\ Le(value_to_evaluate, self_ceiling))

\* a strict greater-than
Gte_evaluate_strict(self_base_value, value_to_evaluate) ==
    IF ~Orderable(value_to_evaluate, self_base_value)
    THEN TypeError
    ELSE Returned(Le(self_base_value, value_to_evaluate) /\ value_to_evaluate # self_base_value)

\* Gte(base).evaluate(candidate): candidate >= base
Gte_evaluate(self_base_value, value_to_evaluate) ==
    IF ~Orderable(value_to_evaluate, self_base_value)
    THEN TypeError
    ELSE Returned(Le(self_base_value, value_to_evaluate))

\* the candidate coerced to its truthiness before the comparison
Boolean_evaluate_truthy(self_base_value, value_to_evaluate) ==
    Returned((IF value_to_evaluate.kind = "str" THEN value_to_evaluate.s # ""
              ELSE value_to_evaluate.n # 0) = (self_base_value.n # 0))

\* BooleanOperator(base).evaluate(candidate): strict boolean equality
Boolean_evaluate(self_base_value, value_to_evaluate) ==
    Returned(value_to_evaluate.kind = "bool" /\ value_to_evaluate.n = self_base_value.n)

\* the attributes of these operators after evaluate: none is assigned
Attr_after(attr, value_to_evaluate) == attr

(* ---------------------------- behaviour -------------------------------- *)
\* the state right after the constructor returns
InitIn ==
    \E args \in InArgs :
        /\ cls = "In"
        /\ ctor = args
        /\ base_value = In_init(args)
        /\ floor = PyNone /\ ceiling = PyNone

InitBetween ==
    \E f \in OrderedVals, c \in OrderedVals :
        /\ f.kind = c.kind
        /\ cls = "Between"
        /\ ctor = <<f, c>>
        /\ floor = f /\ ceiling = c
        /\ base_value = PyNone

InitGte ==
    \E b \in OrderedVals :
        /\ cls = "Gte"
        /\ ctor = <<b>>
        /\ base_value = b
        /\ floor = PyNone /\ ceiling = PyNone

InitBoolean ==
    \E b \in BoolVals :
        /\ cls = "BooleanOperator"
        /\ ctor = <<b>>
        /\ base_value = b
        /\ floor = PyNone /\ ceiling = PyNone

Init ==
    /\ (InitIn \/ InitBetween \/ InitGte \/ InitBoolean)
    /\ cand = PyNone /\ candAfter = PyNone
    /\ ret = NoCall
    /\ calls = 0

\* one call of In.evaluate
InEvaluate ==
    /\ cls = "In"
    /\ calls < MaxCalls
    /\ \E v \in InCandidates :
        /\ cand' = v
        /\ ret' = In_evaluate(base_value, v)
        /\ base_value' = In_base_after(base_value, v)
        /\ candAfter' = In_cand_after(base_value, v)
    /\ calls' = calls + 1
    /\ UNCHANGED <<cls, ctor, floor, ceiling>>

\* one call of Between.evaluate
BetweenEvaluate ==
    /\ cls = "Between"
    /\ calls < MaxCalls
    /\ \E v \in OrderedVals :
        /\ cand' = v
        /\ ret' = Between_evaluate(floor, ceiling, v)
        /\ floor' = Attr_after(floor, v)
        /\ ceiling' = Attr_after(ceiling, v)
        /\ candAfter' = v
    /\ calls' = calls + 1
    /\ UNCHANGED <<cls, ctor, base_value>>

\* one call of Gte.evaluate
GteEvaluate ==
    /\ cls = "Gte"
    /\ calls < MaxCalls
    /\ \E v \in OrderedVals :
        /\ cand' = v
        /\ ret' = Gte_evaluate(base_value, v)
        /\ base_value' = Attr_after(base_value, v)
        /\ candAfter' = v
    /\ calls' = calls + 1
    /\ UNCHANGED <<cls, ctor, floor, ceiling>>

\* one call of BooleanOperator.evaluate
BooleanEvaluate ==
    /\ cls = "BooleanOperator"
    /\ calls < MaxCalls
    /\ \E v \in BoolCandidates :
        /\ cand' = v
        /\ ret' = Boolean_evaluate(base_value, v)
        /\ base_value' = Attr_after(base_value, v)
        /\ candAfter' = v
    /\ calls' = calls + 1
    /\ UNCHANGED <<cls, ctor, floor, ceiling>>

Next == InEvaluate \/ BetweenEvaluate \/ GteEvaluate \/ BooleanEvaluate

Spec == Init /\ [][Next]_vars

(* ---------------------------- properties ------------------------------- *)
\* the distinct elements of a sequence
Distinct(items) == {items[i] : i \in 1..Len(items)}

InCalled == cls = "In" /\ calls > 0
ListCalled == InCalled /\ cand.kind = "list"

\* C1: for a list candidate, In.evaluate returns true exactly when the
\* distinct base values and the distinct candidate elements are the same set;
\* a proper subset or a proper superset of the base values yields false.
C1_ListSetEquality ==
    ListCalled =>
        /\ (ret = Returned(TRUE)) <=> (Distinct(base_value.items) = Distinct(cand.items))
        /\ (\A i \in 1..Len(cand.items) : cand.items[i].kind # "list")
              => ret = Returned(Distinct(base_value.items) = Distinct(cand.items))

\* C1 case: a list that is no copy of the base tuple (reordered or with
\* repeats) and still evaluates to true
C1_Witness ==
    /\ ListCalled
    /\ Len(base_value.items) = 2
    /\ cand.items # base_value.items
    /\ ret = Returned(TRUE)

\* C2: for a candidate that is not a list, In.evaluate returns true exactly
\* when the candidate equals at least one base value; with no base values it
\* is false for every candidate.
C2_ScalarMembership ==
    (InCalled /\ cand.kind # "list") =>
        /\ ret = Returned(\E i \in 1..Len(base_value.items) : base_value.items[i] = cand)
        /\ (base_value.items = <<>> => ret = Returned(FALSE))

\* C2 case: a string candidate equal to the second of two different base values
C2_Witness ==
    /\ InCalled
    /\ cand.kind = "str"
    /\ Len(base_value.items) = 2
    /\ base_value.items[1] # cand
    /\ base_value.items[2] = cand
    /\ ret = Returned(TRUE)

BetweenCalled == cls = "Between" /\ calls > 0

\* C3: for mutually ordered floor, ceiling and candidate, Between.evaluate is
\* true exactly when floor <= candidate <= ceiling, both ends included; with
\* floor > ceiling it is false for every candidate.
C3_BetweenInclusive ==
    (BetweenCalled /\ cand.kind = floor.kind) =>
        /\ ret = Returned(Le(floor, cand) /\ Le(cand, ceiling))
        /\ (cand \in {floor, ceiling} /\ Le(floor, ceiling) => ret = Returned(TRUE))
        /\ (~Le(floor, ceiling) => ret = Returned(FALSE))

\* C3 case: the candidate is the ceiling of a non-empty range
C3_Witness ==
    /\ BetweenCalled
    /\ floor # ceiling /\ Le(floor, ceiling)
    /\ cand = ceiling
    /\ ret = Returned(TRUE)

GteCalled == cls = "Gte" /\ calls > 0

\* C4: for mutually comparable base and candidate, Gte.evaluate is true
\* exactly when candidate >= base.
C4_GteInclusive ==
    (GteCalled /\ cand.kind = base_value.kind) =>
        /\ ret = Returned(Le(base_value, cand))
        /\ (cand = base_value => ret = Returned(TRUE))

\* C4 case: the candidate equals the base
C4_Witness ==
    /\ GteCalled
    /\ cand = base_value
    /\ ret = Returned(TRUE)

BooleanCalled == cls = "BooleanOperator" /\ calls > 0

C6_AnySequenceSetEquality ==
    (InCalled /\ cand.kind \in {"list", "tuple"} /\ ~SetRaises(cand.items)) =>
        ret = Returned(Distinct(base_value.items) = Distinct(cand.items))

\* C6 amended: only a list candidate is evaluated by set-equality; every
\* other candidate, a tuple as much as a string, is evaluated by membership
\* in the base values.
C6_ListOnlySetEquality ==
    InCalled =>
        /\ (cand.kind = "list" /\ ~SetRaises(cand.items))
              => ret = Returned(Distinct(base_value.items) = Distinct(cand.items))
        /\ cand.kind \in {"tuple", "str"}
              => ret = Returned(cand \in Distinct(base_value.items))

\* C6 case: a tuple holding exactly the base values, which is no member of them
C6_Witness ==
    /\ InCalled
    /\ cand.kind = "tuple"
    /\ base_value.items # <<>>
    /\ Distinct(cand.items) = Distinct(base_value.items)
    /\ ret = Returned(FALSE)

\* the result the values given to the constructor determine for a candidate
ResultFromConstruction(c) ==
    CASE cls = "In" -> In_evaluate(In_init(ctor), c)
      [] cls = "Between" -> Between_evaluate(ctor[1], ctor[2], c)
      [] cls = "Gte" -> Gte_evaluate(ctor[1], c)
      [] cls = "BooleanOperator" -> Boolean_evaluate(ctor[1], c)

\* C7: after any sequence of evaluate calls the result of a call depends on
\* the construction-time values and the candidate only, so a call with the
\* candidate of the call before it returns the same result.
C7_NoHistory ==
    /\ [](calls > 0 => ret = ResultFromConstruction(cand))
    /\ [][(calls > 0 /\ cand' = cand) => ret' = ret]_vars

\* C7 case: a second call on an In instance that evaluates to true
C7_Witness ==
    /\ cls = "In"
    /\ calls >= 2
    /\ ret = Returned(TRUE)

\* C8: evaluate leaves the instance's base values as the constructor
\* captured them (elements, order, duplicates) and leaves the candidate as
\* it was passed.
C8_NoSideEffect ==
    calls > 0 =>
        /\ candAfter = cand
        /\ cls = "In" => base_value = PyTuple(ctor)
        /\ cls = "Between" => (floor = ctor[1] /\ ceiling = ctor[2])
        /\ cls \in {"Gte", "BooleanOperator"} => base_value = ctor[1]

\* C8 case: a list candidate with a repeated element on an In instance with
\* a repeated base value
C8_Witness ==
    /\ ListCalled
    /\ Len(ctor) = 2 /\ ctor[1] = ctor[2]
    /\ Len(cand.items) = 2 /\ cand.items[1] = cand.items[2]

\* C9: a candidate that cannot be ordered against floor, ceiling or base
\* ends Between.evaluate and Gte.evaluate in a type error, as does a list
\* candidate of In with an unhashable element; every call returns a boolean
\* or raises.
C9_TypeErrorPropagates ==
    calls > 0 =>
        /\ ret.status \in {"returned", "raised"}
        /\ (cls = "Between" /\ cand.kind # floor.kind) => ret = TypeError
        /\ (cls = "Gte" /\ cand.kind # base_value.kind) => ret = TypeError
        /\ (cls = "In" /\ cand.kind = "list" /\ SetRaises(cand.items)) => ret = TypeError
        /\ (cls = "BooleanOperator" \/ (cls = "In" /\ cand.kind # "list"))
              => ret.status = "returned"

\* C9 case: a string candidate against a numeric floor
C9_Witness ==
    /\ BetweenCalled
    /\ floor.kind = "int"
    /\ cand.kind = "str"
    /\ ret = TypeError

\* one reordering, one added repeat or one removed repeat of a sequence
Variants(items) ==
    {items}
    \cup {[j \in 1..Len(items) |->
              IF j = i THEN items[i + 1] ELSE IF j = i + 1 THEN items[i] ELSE items[j]]
          : i \in 1..(Len(items) - 1)}
    \cup {Append(items, items[i]) : i \in 1..Len(items)}
    \cup {SubSeq(items, 1, i - 1) \o SubSeq(items, i + 1, Len(items))
          : i \in {k \in 1..Len(items) :
                     \E m \in 1..Len(items) : m # k /\ items[m] = items[k]}}

\* C10: in list mode the result is the same for every reordering and every
\* added or removed repeat of the base values and of the candidate's
\* elements; the constructor keeps repeated base values as given.
C10_OrderAndRepeatInsensitive ==
    /\ cls = "In" => base_value.items = ctor
    /\ ListCalled =>
          \A b \in Variants(base_value.items), l \in Variants(cand.items) :
              In_evaluate(PyTuple(b), PyList(l)) = ret

\* C10 case: a repeated base value against a list holding it once
C10_Witness ==
    /\ ListCalled
    /\ Len(base_value.items) = 2
    /\ Len(cand.items) = 1
    /\ ret = Returned(TRUE)

====
